---- MODULE Spec2Model ----
(***************************************************************************)
(* train_network of Online/SingleStream/src/train.py as a state machine.   *)
(*                                                                         *)
(* One run of train_network is modelled: the arguments are fixed by Init,  *)
(* the locals of the function are the variables, and there is one action   *)
(* per block of the loop nest (epoch head, phase head, one batch, phase    *)
(* end, early-stop test, return).  Exceptions end the run in pc = "raised" *)
(* with the exception's name in `error`.                                   *)
(*                                                                         *)
(* Numbers.  epoch_loss and epoch_acc are results of Python 3 true         *)
(* division of integers; they are modelled as exact fractions in lowest    *)
(* terms with a positive denominator, so that record equality is numeric   *)
(* equality (IEEE division is correctly rounded, so equal fractions give   *)
(* equal floats, and fractions of integers this small that differ give     *)
(* different floats).  Per-batch loss values are integers (loss units).    *)
(*                                                                         *)
(* Weights.  A state_dict is a tuple of parameter values; the optimizer    *)
(* step is the only operation of the function that would change it.        *)
(*                                                                         *)
(* Left out: device placement (gpu, .cuda()), printing and the timer,      *)
(* which touch none of the state below.  The data sources come from        *)
(* dataloader.get_loaders, which is outside these sources: a source is     *)
(* modelled by what it yields (number of batches per pass, and the loss    *)
(* value and correct count the forward pass produces on each batch).       *)
(***************************************************************************)
EXTENDS Integers, Sequences, FiniteSets, TLC

\* ------------------------------------------------------------------ bounds
\* epochs of a short run
MaxEpochs == 2
\* batches the Valid source yields per pass in a short run
MaxValidBatches == 2
\* length of the long runs that reach the patience limit
LongEpochs == 22

\* the arguments of the short runs
BatchSizes == {1, 2}
\* <<sequence_len, window_size>>: window counts -1, 0, 1 and 2
SeqWindow == {<<0, 2>>, <<1, 2>>, <<2, 2>>, <<2, 1>>}
TrainBatches == {0, 1}
LossValues == {1, 2}

\* train.py:104  if patience == 20: break
PatienceLimit == 20

Phases == {"Train", "Valid"}

VARIABLES
    \* arguments of train_network (never assigned by it)
    dataloaders,      \* phase -> the data source of that phase
    dataset_sizes,    \* dict: a function whose domain is a subset of Phases
    batch_size, sequence_len, window_size, max_epochs,
    \* the model
    net,              \* [wts: state_dict, training: BOOLEAN]
    zero_grads,       \* number of optimizer.zero_grad() calls so far
    opt_steps,        \* number of optimizer.step() calls so far
    \* locals of train_network
    best_model_wts, best_acc, losses, accuracies, patience,
    epoch, phase, running_loss, running_correct,
    data, inputs, loss, correct,
    epoch_loss, epoch_acc,
    \* control
    pc, error, ret,
    \* history of the run: what the data source has yielded in the current
    \* phase, and the live weights at the end of every completed Valid phase
    yielded, wts_log

args == <<dataloaders, dataset_sizes, batch_size, sequence_len, window_size,
          max_epochs>>
model == <<net, zero_grads, opt_steps>>
tracker == <<best_model_wts, best_acc, patience>>
stats == <<losses, accuracies, epoch_loss, epoch_acc>>
running == <<running_loss, running_correct>>
batch == <<data, inputs, loss, correct, yielded>>
vars == <<args, model, tracker, stats, running, batch, epoch, phase, pc,
          error, ret, wts_log>>

\* ------------------------------------------------------------- arithmetic
Abs(x) == IF x < 0 THEN -x ELSE x

RECURSIVE GCD(_, _)
GCD(a, b) == IF b = 0 THEN a ELSE GCD(b, a % b)

\* Python 3 `n / d` for integers n, d with d # 0: the exact quotient.
TrueDiv(n, d) ==
    LET g == GCD(Abs(n), Abs(d))
        s == IF d < 0 THEN -1 ELSE 1
    IN  [num |-> (s * n) \div g, den |-> (s * d) \div g]

\* the integer 0 that best_acc starts from, as a quotient
IntZero == [num |-> 0, den |-> 1]

\* Python `a > b` on two quotients
Greater(a, b) == a.num * b.den > b.num * a.den

Last(s) == s[Len(s)]

RECURSIVE SumOver(_, _)
SumOver(s, field) ==
    IF s = <<>> THEN 0 ELSE s[1][field] + SumOver(Tail(s), field)

\* ------------------------------------------------------------ data source
\* sequence_len - window_size + 1, the sliding-window predictions per video
NumWindows == sequence_len - window_size + 1

\* data['X'] of batch number idx: window_size*batch_size frames in a flat
\* leading dimension; a frame is represented by its position in the phase.
RawBatch(W, B, idx) == [k \in 0 .. (W * B - 1) |-> idx * W * B + k]

\* The number of correct predictions a batch can produce: one prediction
\* per window of the batch, none when the configuration has no window.
CorrectCounts(B, nw) == IF nw > 0 THEN 0 .. B ELSE {0}

\* A data source: how many batches it yields per pass, the loss values a
\* batch can produce, and per epoch the correct counts a batch can produce.
DataLoader(n, ls, cs) == [len |-> n, losses |-> ls, corrects |-> cs]

\* dataset_sizes: a dict that may lack a phase and may hold a 0
DatasetSizeDicts ==
    { [p \in Phases |-> 1],
      [p \in Phases |-> IF p = "Train" THEN 0 ELSE 1],
      [p \in Phases |-> IF p = "Train" THEN 1 ELSE 0],
      [p \in {"Train"} |-> 1], [p \in {"Valid"} |-> 1] }

\* ----------------------------------------------------------------- tensors
\* a view laid out window-major: row b holds elements b, rows + b, ...
ViewWindowMajor(raw, W) ==
    LET rows == Cardinality(DOMAIN raw) \div W
    IN  [b \in 0 .. (rows - 1) |-> [w \in 0 .. (W - 1) |-> raw[w * rows + b]]]

\* inputs.view(-1, window_size, ...): row b holds the W consecutive
\* elements b*W .. b*W + W-1 of the flat leading dimension.
View(raw, W) ==
    LET rows == Cardinality(DOMAIN raw) \div W
    IN  [b \in 0 .. (rows - 1) |-> [w \in 0 .. (W - 1) |-> raw[b * W + w]]]

\* the view passed on without the transpose
NoTranspose(t, W) == t

\* inputs.transpose(0, 1) of a tensor with W columns
Transpose01(t, W) == [w \in 0 .. (W - 1) |-> [b \in DOMAIN t |-> t[b][w]]]

\* ------------------------------------------------------------ state_dict
StateDict(n) == n.wts
DeepCopy(sd) == sd
LoadStateDict(n, sd) == [n EXCEPT !.wts = sd]
SetTrain(n, mode) == [n EXCEPT !.training = mode]
\* the parameters the caller passes in
InitialWeights == <<0>>
\* a record that starts empty and is filled by the first improvement
NoSnapshot(n) == <<>>

\* line 37: the record starts as a copy of the model's state
InitialSnapshot(n) == DeepCopy(StateDict(n))
\* the phases of an epoch with Valid first
ValidFirst == <<"Valid", "Train">>

\* line 47: the phases of an epoch, in order
PhaseOrder == <<"Train", "Valid">>

NoEpoch == -1
NoValue == [num |-> 0, den |-> 0]
NoBatch == <<>>
NoReturn == <<>>

\* ------------------------------------------------------------------- Init
\* lines 31-41, for one choice of the arguments
Setup(dl, ds, bs, sl, ws, me) ==
    /\ dataloaders = dl
    /\ dataset_sizes = ds
    /\ batch_size = bs
    /\ sequence_len = sl
    /\ window_size = ws
    /\ max_epochs = me
    /\ net = [wts |-> InitialWeights, training |-> TRUE]
    /\ zero_grads = 0
    /\ opt_steps = 0
    /\ best_model_wts = InitialSnapshot(net)
    /\ best_acc = IntZero
    /\ losses = [p \in Phases |-> <<>>]
    /\ accuracies = [p \in Phases |-> <<>>]
    /\ patience = 0
    /\ epoch = NoEpoch
    /\ phase = "Train"
    /\ running_loss = 0
    /\ running_correct = 0
    /\ data = NoBatch
    /\ inputs = NoBatch
    /\ loss = 0
    /\ correct = 0
    /\ epoch_loss = NoValue
    /\ epoch_acc = NoValue
    /\ pc = "epoch_head"
    /\ error = "none"
    /\ ret = NoReturn
    /\ yielded = <<>>
    /\ wts_log = <<>>

\* Short runs: every small configuration, every batch outcome.
InitShort ==
    \E me \in 0 .. MaxEpochs, bs \in BatchSizes, sw \in SeqWindow,
       ds \in DatasetSizeDicts, nT \in TrainBatches,
       nV \in 0 .. MaxValidBatches :
        LET cs == [e \in 0 .. (me - 1) |->
                     CorrectCounts(bs, sw[1] - sw[2] + 1)]
            dl == [p \in Phases |->
                     DataLoader(IF p = "Train" THEN nT ELSE nV,
                                LossValues, cs)]
        IN  Setup(dl, ds, bs, sw[1], sw[2], me)

\* Long runs: an empty or one-batch Train source, one Valid batch per
\* epoch, whose correct count is 2 in epoch p2, 1 in epoch p1, else 0.
InitLong ==
    \E p1 \in 0 .. LongEpochs, p2 \in 0 .. LongEpochs, nT \in TrainBatches :
        LET cs == [e \in 0 .. (LongEpochs - 1) |->
                     {IF e = p2 THEN 2 ELSE IF e = p1 THEN 1 ELSE 0}]
            dl == [p \in Phases |->
                     DataLoader(IF p = "Train" THEN nT ELSE 1, {1}, cs)]
        IN  Setup(dl, [p \in Phases |-> 2], 2, 1, 1, LongEpochs)

\* The normalisation example: 10 videos, sequence_len 50, window_size 5,
\* so 460 window predictions per phase; a Valid batch has 0, 230 or 460
\* correct predictions.
InitExample ==
    \E nT \in TrainBatches, me \in {1, 2} :
        LET cs == [e \in 0 .. (me - 1) |-> {0, 230, 460}]
            dl == [p \in Phases |->
                     DataLoader(IF p = "Train" THEN nT ELSE 1, {1}, cs)]
        IN  Setup(dl, [p \in Phases |-> 10], 460, 50, 5, me)

Init == InitShort \/ InitLong \/ InitExample

\* ---------------------------------------------------------------- actions
\* a loop that tests its bound only after the first epoch
MoreEpochsAfterFirst(e, me) == e = NoEpoch \/ e + 1 < me

\* line 42: range(max_epochs) has an index after e
MoreEpochs(e, me) == e + 1 < me

\* line 42: the for loop binds the next epoch
NextEpoch ==
    /\ pc = "epoch_head"
    /\ MoreEpochs(epoch, max_epochs)
    /\ epoch' = epoch + 1
    /\ phase' = PhaseOrder[1]
    /\ pc' = "phase_head"
    /\ UNCHANGED <<args, model, tracker, stats, running, batch, error, ret,
                   wts_log>>

\* line 42: range(max_epochs) is exhausted
LoopExhausted ==
    /\ pc = "epoch_head"
    /\ ~MoreEpochs(epoch, max_epochs)
    /\ pc' = "exit"
    /\ UNCHANGED <<args, model, tracker, stats, running, batch, epoch, phase,
                   error, ret, wts_log>>

\* lines 47-57: mode switch, accumulators reset, a fresh pass over the source
PhaseHead ==
    /\ pc = "phase_head"
    /\ net' = SetTrain(net, phase = "Train")
    /\ running_loss' = 0
    /\ running_correct' = 0
    /\ yielded' = <<>>
    /\ pc' = "batch_loop"
    /\ UNCHANGED <<args, zero_grads, opt_steps, tracker, stats, data, inputs,
                   loss, correct, epoch, phase, error, ret, wts_log>>

\* lines 60-62: the window tensor of a raw batch
Reshape(raw, W) == Transpose01(View(raw, W), W)

\* a zero_grad that is not called
ZeroGradSkipped(n) == n

\* line 72: optimizer.zero_grad(), counted
ZeroGrad(n) == n + 1

\* the test of line 80 made on the other phase
TrainsOnValid(p) == p = "Valid"

\* line 80: the phase whose batches end with backward and step
Trains(p) == p = "Train"

\* lines 57-78: the source yields a batch with loss value l and c correct
\* predictions; reshape, zero_grad, forward, loss, correct
Forward(l, c) ==
    /\ data' = RawBatch(window_size, batch_size, Len(yielded))
    /\ inputs' = Reshape(data', window_size)
    /\ zero_grads' = ZeroGrad(zero_grads)
    /\ loss' = l
    /\ correct' = c
    /\ yielded' = Append(yielded, [loss |-> l, correct |-> c])

\* lines 57-81 with the test of line 80 true (phase Train): line 81 reads
\* sequence_loss, a name bound nowhere in the module, so the batch ends in
\* NameError before optimizer.step() and before the statistics of lines
\* 85-86.
TrainBatch ==
    /\ pc = "batch_loop"
    /\ Trains(phase)
    /\ Len(yielded) < dataloaders[phase].len
    /\ \E l \in dataloaders[phase].losses,
          c \in dataloaders[phase].corrects[epoch] : Forward(l, c)
    /\ pc' = "raised"
    /\ error' = "NameError"
    /\ UNCHANGED <<args, net, opt_steps, tracker, stats, running, epoch,
                   phase, ret, wts_log>>

\* `=` in place of `+=`
Overwrite(acc, x) == x

\* lines 85-86
Accumulate(acc, x) == acc + x

\* lines 57-86 with the test of line 80 false (phase Valid): no backward,
\* no step
ValidBatch ==
    /\ pc = "batch_loop"
    /\ ~Trains(phase)
    /\ Len(yielded) < dataloaders[phase].len
    /\ \E l \in dataloaders[phase].losses,
          c \in dataloaders[phase].corrects[epoch] : Forward(l, c)
    /\ running_loss' = Accumulate(running_loss, loss')
    /\ running_correct' = Accumulate(running_correct, correct')
    /\ UNCHANGED <<args, net, opt_steps, tracker, stats, epoch, phase, pc,
                   error, ret, wts_log>>

\* line 88
EpochLoss(rl, bs, n) == TrueDiv(rl * bs, n)
\* lines 89-90 with floor division
EpochAccFloor(rc, n, nw) == [num |-> rc \div (n * nw), den |-> 1]

\* lines 89-90
EpochAcc(rc, n, nw) == TrueDiv(rc, n * nw)

\* lines 88-90 raise: KeyError for a phase dataset_sizes lacks, and
\* ZeroDivisionError for a size of 0 (line 88) or a window count of 0
\* (line 89, after epoch_loss was assigned)
StatsError ==
    IF phase \notin DOMAIN dataset_sizes THEN "KeyError"
    ELSE IF dataset_sizes[phase] = 0 THEN "ZeroDivisionError"
    ELSE IF dataset_sizes[phase] * NumWindows = 0 THEN "ZeroDivisionError"
    ELSE "none"

\* line 47: the inner for loop binds the next phase, or is exhausted and
\* control reaches line 104
AfterPhase ==
    LET k == CHOOSE j \in 1 .. Len(PhaseOrder) : PhaseOrder[j] = phase
    IN  IF k < Len(PhaseOrder)
        THEN phase' = PhaseOrder[k + 1] /\ pc' = "phase_head"
        ELSE phase' = phase /\ pc' = "epoch_end"

\* the exception of lines 88-90 caught and the phase's statistics skipped
StatsSkipped ==
    /\ pc = "batch_loop"
    /\ Len(yielded) = dataloaders[phase].len
    /\ StatsError # "none"
    /\ AfterPhase
    /\ UNCHANGED <<args, model, tracker, stats, running, batch, epoch, error,
                   ret, wts_log>>

StatsRaise ==
    /\ pc = "batch_loop"
    /\ Len(yielded) = dataloaders[phase].len
    /\ StatsError # "none"
    /\ epoch_loss' =
         IF phase \in DOMAIN dataset_sizes /\ dataset_sizes[phase] # 0
         THEN EpochLoss(running_loss, batch_size, dataset_sizes[phase])
         ELSE epoch_loss
    /\ pc' = "raised"
    /\ error' = StatsError
    /\ UNCHANGED <<args, model, tracker, losses, accuracies, epoch_acc,
                   running, batch, epoch, phase, ret, wts_log>>

\* the accuracy of every phase stored under 'Train'
StoreStatsOneKey ==
    /\ epoch_loss' = EpochLoss(running_loss, batch_size, dataset_sizes[phase])
    /\ epoch_acc' = EpochAcc(running_correct, dataset_sizes[phase], NumWindows)
    /\ losses' = [losses EXCEPT ![phase] = Append(@, epoch_loss')]
    /\ accuracies' = [accuracies EXCEPT !["Train"] = Append(@, epoch_acc')]

\* lines 88-95: the phase's statistics are computed and stored
StoreStats ==
    /\ epoch_loss' = EpochLoss(running_loss, batch_size, dataset_sizes[phase])
    /\ epoch_acc' = EpochAcc(running_correct, dataset_sizes[phase], NumWindows)
    /\ losses' = [losses EXCEPT ![phase] = Append(@, epoch_loss')]
    /\ accuracies' = [accuracies EXCEPT ![phase] = Append(@, epoch_acc')]

\* lines 57, 88-96 in phase Train
TrainPhaseEnd ==
    /\ pc = "batch_loop"
    /\ phase = "Train"
    /\ Len(yielded) = dataloaders[phase].len
    /\ StatsError = "none"
    /\ StoreStats
    /\ AfterPhase
    /\ UNCHANGED <<args, model, tracker, running, batch, epoch, error, ret,
                   wts_log>>

\* line 98 with >= : a tie counts as an improvement
ImprovedOrTie(acc, best) == ~Greater(best, acc)

\* line 98 with the comparison turned round
ImprovedFlipped(acc, best) == Greater(best, acc)

\* line 98
Improved(acc, best) == Greater(acc, best)
\* lines 97, 102
NextPatience(p, improved) == IF improved THEN 0 ELSE p + 1
\* lines 99, 101 outside the if: the record follows every epoch
AlwaysNew(old, new, improved) == new

\* lines 99, 101
NextBest(old, new, improved) == IF improved THEN new ELSE old

\* lines 57, 88-102 in phase Valid
ValidPhaseEnd ==
    /\ pc = "batch_loop"
    /\ phase = "Valid"
    /\ Len(yielded) = dataloaders[phase].len
    /\ StatsError = "none"
    /\ StoreStats
    /\ LET improved == Improved(epoch_acc', best_acc)
       IN  /\ patience' = NextPatience(patience, improved)
           /\ best_acc' = NextBest(best_acc, epoch_acc', improved)
           /\ best_model_wts' =
                NextBest(best_model_wts, DeepCopy(StateDict(net)), improved)
    /\ wts_log' = Append(wts_log, StateDict(net))
    /\ AfterPhase
    /\ UNCHANGED <<args, model, running, batch, epoch, error, ret>>

\* an early-stop test that fires only once the counter is past the limit
StopLate(p) == p > PatienceLimit

\* an epoch boundary without the early-stop test
StopNever(p) == FALSE

\* line 104
StopNow(p) == p = PatienceLimit

\* lines 104-105
Break ==
    /\ pc = "epoch_end"
    /\ StopNow(patience)
    /\ pc' = "exit"
    /\ UNCHANGED <<args, model, tracker, stats, running, batch, epoch, phase,
                   error, ret, wts_log>>

\* line 104 false: back to the for loop
Continue ==
    /\ pc = "epoch_end"
    /\ ~StopNow(patience)
    /\ pc' = "epoch_head"
    /\ UNCHANGED <<args, model, tracker, stats, running, batch, epoch, phase,
                   error, ret, wts_log>>

\* a return of the last epoch's Valid accuracy in place of best_acc
ReturnLastAcc(n, ba, ls, accs) ==
    [net |-> n,
     best_acc |-> IF accs["Valid"] = <<>> THEN ba ELSE Last(accs["Valid"]),
     losses |-> ls, accuracies |-> accs]

\* line 115
ReturnValue(n, ba, ls, accs) ==
    [net |-> n, best_acc |-> ba, losses |-> ls, accuracies |-> accs]

\* lines 113-115
Return ==
    /\ pc = "exit"
    /\ net' = LoadStateDict(net, best_model_wts)
    /\ ret' = ReturnValue(net', best_acc, losses, accuracies)
    /\ pc' = "done"
    /\ UNCHANGED <<args, zero_grads, opt_steps, tracker, stats, running,
                   batch, epoch, phase, error, wts_log>>

Next ==
    \/ NextEpoch
    \/ LoopExhausted
    \/ PhaseHead
    \/ TrainBatch
    \/ ValidBatch
    \/ StatsRaise
    \/ TrainPhaseEnd
    \/ ValidPhaseEnd
    \/ Break
    \/ Continue
    \/ Return

Spec == Init /\ [][Next]_vars

\* ----------------------------------------------------------------- claims

\* the largest element of a non-empty sequence of quotients
RECURSIVE MaxOf(_)
MaxOf(s) ==
    IF Len(s) = 1 THEN s[1]
    ELSE LET m == MaxOf(SubSeq(s, 1, Len(s) - 1))
         IN  IF Greater(Last(s), m) THEN Last(s) ELSE m

\* the best Valid accuracy before entry k: 0 and the entries 1 .. k-1
BestBefore(s, k) == IF k = 1 THEN IntZero ELSE
    LET m == MaxOf(SubSeq(s, 1, k - 1))
    IN  IF Greater(m, IntZero) THEN m ELSE IntZero

\* the first position of the largest element
FirstArgMax(s) ==
    LET m == MaxOf(s)
    IN  CHOOSE k \in 1 .. Len(s) :
            s[k] = m /\ \A j \in 1 .. (k - 1) : s[j] # m

\* C1: when train_network has returned, the model holds the parameters of
\* the Best-Model Record, the returned model is that model, and the
\* returned accuracy is best_acc (whatever the last epoch's accuracy was).
C1_ReturnsBest ==
    pc = "done" =>
        /\ StateDict(net) = best_model_wts
        /\ ret.net = net
        /\ ret.best_acc = best_acc

\* a returned run of two or more epochs whose last epoch was worse than
\* the best one
C1_Witness ==
    /\ pc = "done"
    /\ Len(accuracies["Valid"]) >= 2
    /\ Greater(ret.best_acc, Last(accuracies["Valid"]))

\* entry k of the Valid accuracies is not strictly greater than the best
\* Valid accuracy before it
NonImproving(s, k) == ~Greater(s[k], BestBefore(s, k))

\* the last PatienceLimit Valid accuracies were all non-improving
Stalled ==
    LET s == accuracies["Valid"]
    IN  /\ Len(s) >= PatienceLimit
        /\ \A k \in (Len(s) - PatienceLimit + 1) .. Len(s) : NonImproving(s, k)

\* C2: once Valid accuracy has failed to improve for 20 consecutive epochs
\* no phase of a further epoch runs (control is at the early-stop test, at
\* the exit or returned), and the loop is left before max_epochs epochs
\* only in that case.
C2_EarlyStop ==
    /\ Stalled => pc \in {"epoch_end", "exit", "done"}
    /\ (pc \in {"exit", "done"} /\ epoch + 1 < max_epochs) => Stalled

\* a run that returned after 20 stalled epochs with epochs to spare, the
\* stall having started after an improvement
C2_Witness ==
    /\ pc = "done"
    /\ Stalled
    /\ epoch + 1 < max_epochs
    /\ Len(accuracies["Valid"]) > PatienceLimit

C4_BestSnapshot ==
    Len(accuracies["Valid"]) >= 1 =>
        best_model_wts = wts_log[FirstArgMax(accuracies["Valid"])]

\* the maximum was achieved twice, first in an epoch before the last
C4_Witness ==
    /\ Len(accuracies["Valid"]) >= 2
    /\ Last(accuracies["Valid"]) = MaxOf(accuracies["Valid"])
    /\ FirstArgMax(accuracies["Valid"]) < Len(accuracies["Valid"])
    /\ Greater(best_acc, IntZero)

\* a single-epoch run that returned
C4_WitnessSingle ==
    /\ pc = "done"
    /\ max_epochs = 1
    /\ Len(accuracies["Valid"]) = 1
    /\ StateDict(ret.net) = wts_log[1]

\* C5: the four history lists grow together: within an epoch the lists of
\* a phase have equal length, Train is at most one entry ahead of Valid,
\* and at every epoch boundary and at the return all four hold one entry
\* per epoch executed, at most max_epochs.
C5_HistoryLengths ==
    /\ \A p \in Phases : Len(losses[p]) = Len(accuracies[p])
    /\ Len(losses["Train"]) - Len(losses["Valid"]) \in {0, 1}
    /\ pc \in {"epoch_head", "epoch_end", "exit", "done"} =>
         \A p \in Phases :
            /\ Len(losses[p]) = epoch + 1
            /\ Len(losses[p]) <= max_epochs

\* a returned run of two or more epochs
C5_Witness ==
    /\ pc = "done"
    /\ Len(ret.losses["Train"]) >= 2
    /\ Len(ret.accuracies["Valid"]) >= 2

\* a step that processes a batch of the given phase
BatchStep(p) == phase = p /\ pc = "batch_loop" /\ yielded' # yielded

\* C6: a Valid batch is processed only after the Train phase of the same
\* epoch has consumed its whole source and stored its statistics, and
\* before the Valid statistics of that epoch; a Train batch only before
\* both; no step into or within a Valid phase changes the weights the
\* Train phase left; the epoch index only grows by one; and the loop is left only
\* from the loop head or from the early-stop test, which is reached only
\* with the Valid phase of the epoch completed.
C6_Step ==
    /\ BatchStep("Valid") =>
         /\ Len(losses["Train"]) = epoch + 1
         /\ Len(losses["Valid"]) = epoch
    /\ BatchStep("Train") =>
         /\ Len(losses["Train"]) = epoch
         /\ Len(losses["Valid"]) = epoch
    /\ losses'["Train"] # losses["Train"] =>
         phase = "Train" /\ Len(yielded) = dataloaders["Train"].len
    /\ (phase' = "Valid" /\ pc' # "done") => StateDict(net') = StateDict(net)
    /\ epoch' # epoch => epoch' = epoch + 1 /\ pc = "epoch_head"
    /\ (pc' = "exit" /\ pc # "exit") => pc \in {"epoch_head", "epoch_end"}
    /\ (pc' = "epoch_end" /\ pc # "epoch_end") =>
         /\ phase = "Valid"
         /\ Len(yielded) = dataloaders["Valid"].len
         /\ Len(accuracies'["Valid"]) = epoch + 1

C6_PhaseOrder == [][C6_Step]_vars

\* a Valid batch being processed in the second epoch
C6_Witness ==
    /\ phase = "Valid"
    /\ pc = "batch_loop"
    /\ epoch >= 1
    /\ Len(yielded) >= 1
    /\ Len(losses["Train"]) = epoch + 1

\* C7: every batch of a Train phase ends with one optimizer step, its loss
\* and correct count accumulated, and control back at the batch loop.
C7_TrainStep ==
    [][BatchStep("Train") =>
         /\ opt_steps' = opt_steps + 1
         /\ running_loss' = running_loss + loss'
         /\ running_correct' = running_correct + correct'
         /\ pc' = "batch_loop"]_vars

\* C8: while a phase consumes its source, and once it has consumed it,
\* running_loss and running_correct are the sums of the loss values and
\* correct counts of the batches the source has yielded in this phase (0
\* before the first batch), and the statistics of a phase are stored only
\* from a source consumed to its end.
C8_Accounting ==
    LET ended == IF pc = "epoch_end" THEN {"Valid"}
                 ELSE IF pc = "phase_head" /\ phase = "Valid" THEN {"Train"}
                 ELSE {}
    IN  /\ (pc = "batch_loop" \/ ended # {}) =>
              /\ running_loss = SumOver(yielded, "loss")
              /\ running_correct = SumOver(yielded, "correct")
        /\ \A p \in ended : Len(yielded) = dataloaders[p].len

\* the second epoch's Valid phase at its end, with two batches counted
C8_Witness ==
    /\ pc = "epoch_end"
    /\ epoch >= 1
    /\ Len(yielded) = 2
    /\ running_loss = yielded[1].loss + yielded[2].loss
    /\ yielded[1].correct > 0
    /\ yielded[2].correct > 0

\* C9: every recorded accuracy is the exact quotient of running_correct by
\* dataset_sizes[phase] * (sequence_len - window_size + 1); 230 correct
\* out of 10 * 46 windows is recorded as exactly one half.
C9_Step ==
    accuracies' # accuracies =>
        LET a == Last(accuracies'[phase])
            d == dataset_sizes[phase] * NumWindows
        IN  /\ a = epoch_acc'
            /\ a.den # 0
            /\ a.num * d = running_correct * a.den
            /\ (running_correct = 230 /\ d = 460) => 2 * a.num = a.den

C9_Normalization == [][C9_Step]_vars

\* the example: 10 videos, 46 windows each, 230 correct, accuracy 1/2
C9_Witness ==
    /\ pc = "epoch_end"
    /\ dataset_sizes["Valid"] = 10
    /\ NumWindows = 46
    /\ running_correct = 230
    /\ epoch_acc = [num |-> 1, den |-> 2]
    /\ Last(accuracies["Valid"]) = epoch_acc

\* C10: the window tensor of a batch holds at [w][b] the raw element at
\* flat index b * window_size + w, for every w below window_size and b
\* below batch_size, and every raw element sits at exactly that one place.
C10_Reshape ==
    DOMAIN data # {} =>
        /\ DOMAIN data = 0 .. (window_size * batch_size - 1)
        /\ DOMAIN inputs = 0 .. (window_size - 1)
        /\ \A w \in 0 .. (window_size - 1) :
              /\ DOMAIN inputs[w] = 0 .. (batch_size - 1)
              /\ \A b \in 0 .. (batch_size - 1) :
                    inputs[w][b] = data[b * window_size + w]
        /\ \A k \in DOMAIN data :
              inputs[k % window_size][k \div window_size] = data[k]

\* a batch of two windows of two frames: the two off-diagonal frames differ
C10_Witness ==
    /\ DOMAIN data # {}
    /\ window_size = 2
    /\ batch_size = 2
    /\ inputs[0][1] = data[2]
    /\ inputs[1][0] = data[1]
    /\ data[1] # data[2]

\* a step that completes a Valid phase and stores its statistics
ValidCompletion == accuracies'["Valid"] # accuracies["Valid"]

\* C11: a Valid completion whose accuracy is strictly greater than
\* best_acc sets patience to 0, any other (lower or tied) adds exactly 1
\* to it, and no other step changes patience.
C11_Step ==
    /\ ValidCompletion =>
         IF Greater(Last(accuracies'["Valid"]), best_acc)
         THEN patience' = 0
         ELSE patience' = patience + 1
    /\ patience' # patience => ValidCompletion

C11_PatienceRule == [][C11_Step]_vars

\* the same non-improving accuracy seen in two epochs running, after an
\* improvement: the counter stands at 2
C11_Witness ==
    LET s == accuracies["Valid"]
    IN  /\ pc = "epoch_end"
        /\ Len(s) >= 3
        /\ s[Len(s)] = s[Len(s) - 1]
        /\ Greater(s[Len(s) - 2], s[Len(s)])
        /\ best_acc = s[Len(s) - 2]
        /\ patience = 2

\* C12: best_model_wts and best_acc change only in a step that completes
\* a Valid phase with an accuracy strictly greater than best_acc; a Valid
\* completion with a lower or equal accuracy, and every batch step, leave
\* both as they were.
C12_Step ==
    /\ (best_model_wts' # best_model_wts \/ best_acc' # best_acc) =>
         /\ ValidCompletion
         /\ Greater(Last(accuracies'["Valid"]), best_acc)
    /\ (ValidCompletion /\ ~Greater(Last(accuracies'["Valid"]), best_acc)) =>
         UNCHANGED <<best_model_wts, best_acc>>
    /\ yielded' # yielded => UNCHANGED <<best_model_wts, best_acc>>

C12_RecordFrame == [][C12_Step]_vars

\* a Valid phase just completed below a positive best accuracy, with
\* batches processed since the record was taken
C12_Witness ==
    /\ pc = "epoch_end"
    /\ Len(accuracies["Valid"]) >= 2
    /\ Greater(best_acc, Last(accuracies["Valid"]))
    /\ Greater(Last(accuracies["Valid"]), IntZero)
    /\ Len(yielded) >= 1
    /\ patience >= 1

\* C13 as stated: the element at raw flat index k sits in the window
\* tensor at window position (k // batch_size) % window_size and batch
\* position k % batch_size.
C13_SpecIndex ==
    DOMAIN data # {} =>
        \A k \in DOMAIN data :
            inputs[(k \div batch_size) % window_size][k % batch_size] = data[k]

\* C13, amended: the element at raw flat index k sits in the window tensor
\* at window position k % window_size and batch position k // window_size,
\* and the tensor has as many places as the batch has elements.
C13_FlatIndex ==
    DOMAIN data # {} =>
        /\ \A k \in DOMAIN data :
              /\ k % window_size \in DOMAIN inputs
              /\ k \div window_size \in DOMAIN inputs[k % window_size]
              /\ inputs[k % window_size][k \div window_size] = data[k]
        /\ \A w \in DOMAIN inputs :
              Cardinality(DOMAIN inputs) * Cardinality(DOMAIN inputs[w])
                  = Cardinality(DOMAIN data)

\* two windows of two frames: flat index 1 is frame 1 of window 0, where
\* the stated formula puts flat index 2
C13_Witness ==
    /\ DOMAIN data # {}
    /\ window_size = 2
    /\ batch_size = 2
    /\ inputs[1 % window_size][1 \div window_size] = data[1]
    /\ inputs[(1 \div batch_size) % window_size][1 % batch_size] = data[2]

\* C14: a Valid batch ends with no backward pass attempted and no
\* optimizer step (control is back at the batch loop, nothing raised),
\* no step of a Valid phase changes the parameters or the step count, and
\* only a Train batch may change either.
C14_Step ==
    /\ BatchStep("Valid") =>
         /\ pc' = "batch_loop"
         /\ error' = "none"
    /\ (phase = "Valid" /\ pc \in {"phase_head", "batch_loop"}) =>
         /\ opt_steps' = opt_steps
         /\ StateDict(net') = StateDict(net)
    /\ (opt_steps' # opt_steps \/ StateDict(net') # StateDict(net)) =>
         BatchStep("Train")

C14_ValidEvaluates == [][C14_Step]_vars

\* a Valid phase of two batches at its end, in evaluation mode, with the
\* parameters it started from
C14_Witness ==
    /\ pc = "epoch_end"
    /\ phase = "Valid"
    /\ Len(yielded) = 2
    /\ ~net.training
    /\ opt_steps = 0
    /\ StateDict(net) = InitialWeights

\* C15 as stated: optimizer.zero_grad() is not invoked for a Valid batch.
C15_TrainOnly == [][BatchStep("Valid") => zero_grads' = zero_grads]_vars

\* C15, amended: optimizer.zero_grad() is invoked exactly once for every
\* batch, of the Train phase and of the Valid phase alike, and by no other
\* step.
C15_Step ==
    /\ \A p \in Phases : BatchStep(p) => zero_grads' = zero_grads + 1
    /\ zero_grads' # zero_grads => \E p \in Phases : BatchStep(p)

C15_EveryBatch == [][C15_Step]_vars

\* the second epoch's Valid phase: one zero_grad per Valid batch so far
C15_Witness ==
    /\ phase = "Valid"
    /\ pc = "batch_loop"
    /\ epoch >= 1
    /\ Len(yielded) >= 1
    /\ zero_grads = epoch * dataloaders["Valid"].len + Len(yielded)

\* C16 as stated: with sequence_len - window_size + 1 <= 0 a run that has
\* an epoch to execute processes no batch, records no accuracy and does
\* not return normally.
C16_ConfigError ==
    (NumWindows <= 0 /\ max_epochs >= 1) =>
        /\ zero_grads = 0
        /\ yielded = <<>>
        /\ \A p \in Phases : accuracies[p] = <<>>
        /\ pc # "done"

\* some phase has no entry in dataset_sizes
MissingPhases == Phases \ DOMAIN dataset_sizes

\* C17: a phase that dataset_sizes lacks never gets a statistic; reaching
\* the end of such a phase raises KeyError and the run stays aborted: no
\* later phase or epoch, the Best-Model Record as initialised, nothing
\* returned.
C17_State ==
    /\ \A p \in MissingPhases : losses[p] = <<>> /\ accuracies[p] = <<>>
    /\ ("Train" \in MissingPhases) => phase = "Train"
    /\ (MissingPhases # {} /\ max_epochs >= 1) =>
         /\ epoch <= 0
         /\ pc \notin {"epoch_end", "exit", "done"}
         /\ ret = NoReturn
         /\ best_acc = IntZero
         /\ best_model_wts = InitialWeights
    /\ error = "KeyError" => pc = "raised" /\ phase \in MissingPhases

C17_Step ==
    /\ pc = "raised" => UNCHANGED vars
    /\ (pc = "batch_loop" /\ phase \in MissingPhases
          /\ Len(yielded) = dataloaders[phase].len) =>
         pc' = "raised" /\ error' = "KeyError"

C17_MissingSize == []C17_State /\ [][C17_Step]_vars

\* KeyError at the end of a Valid phase that processed a batch, after the
\* Train statistics of the epoch were stored
C17_Witness ==
    /\ error = "KeyError"
    /\ pc = "raised"
    /\ phase = "Valid"
    /\ Len(yielded) >= 1
    /\ Len(losses["Train"]) = 1
    /\ losses["Valid"] = <<>>

\* C18: patience is always an integer in 0..20, and it is strictly below 20
\* whenever a new epoch starts (and throughout the epoch's phases, up to the
\* end of its Valid phase): the counter moves by one step per Valid phase
\* and the test of line 104 follows each step, so it is never stepped over.
C18_PatienceBound ==
    /\ patience \in 0 .. PatienceLimit
    /\ pc \notin {"epoch_end", "exit", "done"} => patience < PatienceLimit
    /\ (pc = "epoch_head" /\ MoreEpochs(epoch, max_epochs)) =>
         patience < PatienceLimit

C18_Witness ==
    /\ pc = "epoch_end"
    /\ patience = PatienceLimit
    /\ MoreEpochs(epoch, max_epochs)

\* C19: with max_epochs = 0 no phase runs and no batch is consumed; the
\* run returns the model with its initial parameters, best accuracy 0 and
\* empty Train and Valid lists of losses and accuracies.
C19_ZeroEpochs ==
    max_epochs = 0 =>
        /\ pc \in {"epoch_head", "exit", "done"}
        /\ epoch = NoEpoch
        /\ error = "none"
        /\ yielded = <<>>
        /\ zero_grads = 0 /\ opt_steps = 0
        /\ StateDict(net) = InitialWeights
        /\ best_acc = IntZero
        /\ \A p \in Phases : losses[p] = <<>> /\ accuracies[p] = <<>>
        /\ pc = "done" =>
             /\ StateDict(ret.net) = InitialWeights
             /\ ret.best_acc = IntZero
             /\ \A p \in Phases :
                  ret.losses[p] = <<>> /\ ret.accuracies[p] = <<>>

C19_Witness ==
    /\ max_epochs = 0
    /\ pc = "done"
    /\ dataloaders["Valid"].len >= 1
    /\ ret # NoReturn

\* A configuration with a size for each phase, no size 0 and at least one
\* window per sequence.
WellConfigured ==
    /\ \A p \in Phases : p \in DOMAIN dataset_sizes /\ dataset_sizes[p] # 0
    /\ NumWindows > 0

\* C20: for every max_epochs >= 0 and finite data sources the run reaches
\* its return statement after at most max_epochs epochs, with the best
\* weights loaded into the model.  The sources are finite and the epochs
\* bounded, so the run terminates at the return exactly when no step of it
\* stops anywhere else.
C20_Termination ==
    WellConfigured =>
        /\ (~ ENABLED Next) => pc = "done"
        /\ epoch < max_epochs \/ epoch = NoEpoch
        /\ pc = "done" => StateDict(ret.net) = best_model_wts

====
